---- MODULE Spec2Model ----
(***************************************************************************)
(* Greedy first-fit point-feature label placement (Label_placer).          *)
(*                                                                         *)
(* The repository holds two programs with the same placement core:         *)
(*   "Source"  src/Source.cpp  labels 6.0 x 2.0, offsets at distance 1     *)
(*   "main"    src/main.cpp    labels 0.4 x 0.2, offsets at distance 0.2,  *)
(*                             followed by the report of unlabeled points  *)
(* Coordinates are doubles in the code.  Here they are integers counted in *)
(* units of 1.0 for "Source" and of 0.1 for "main", so every label size    *)
(* and offset of both programs is a whole number of units.                 *)
(*   "Source": the inputs are points with whole coordinates; every sum the *)
(*   code forms is then a whole number, which doubles hold exactly.        *)
(*   "main": 0.2 and 0.4 are not exact doubles, so two box sides that are  *)
(*   equal on paper may compare either way in the code.  The inputs are    *)
(*   therefore points on the 0.5 grid (the spacing of main()'s sample      *)
(*   data): on it two compared sides are equal only when they come from    *)
(*   the same computation, and differ by 0.1 or more otherwise, so the     *)
(*   comparisons of doubles come out as the exact ones do.                 *)
(***************************************************************************)
EXTENDS Integers, Sequences, FiniteSets, TLC

\* Bounds of the explored inputs.
MaxN == 3       \* longest input sequence
MaxX == 2       \* input points have x in {0..MaxX} * GridStep
MaxY == 2       \* input points have y in {0..MaxY} * GridStep
MaxReportN == 5 \* longest input sequence of the runs that check the report

Programs == {"Source", "main"}

\* Labels by input position, as in both main() functions ("A", "B", ...).
LabelOf(k) == <<"A", "B", "C", "D", "E", "F", "G", "H">>[k]

VARIABLES
    prog,       \* which program runs
    points,     \* main(): the input sequence of (point, label) pairs
    pc,         \* "main" | "loop" | "returned" | "reported"
    calls,      \* number of calls of placeLabels made so far
    i,          \* placeLabels: number of input points processed by the loop
    result,     \* placeLabels: the local vector being built
    results,    \* main(): the value returned by the last completed call
    unlabeled,  \* main.cpp: the entries reported with a NO LABEL line
    previous    \* a caller that calls twice: the value the first call returned

vars == <<prog, points, pc, calls, i, result, results, unlabeled, previous>>

----------------------------------------------------------------------------
\* Geometry

point_t(px, py) == [x |-> px, y |-> py]

box_t(c1, c2) == [min_corner |-> c1, max_corner |-> c2]

\* 6.0, resp. 0.4
label_width(p) == IF p = "Source" THEN 6 ELSE 4

\* 2.0, resp. 0.2
label_height(p) == IF p = "Source" THEN 2 ELSE 2

\* Distance of a candidate box from its point: 1, resp. 0.2.
offset_gap(p) == IF p = "Source" THEN 1 ELSE 2

\* Top-right, top-left, bottom-right, bottom-left.
offsets(p) ==
    LET g == offset_gap(p)
        w == label_width(p)
        h == label_height(p)
    IN  << <<g, g>>, <<-g - w, g>>, <<g, -g - h>>, <<-g - w, -g - h>> >>

\* bg::equals on two points
equals(p1, p2) == p1.x = p2.x /\ p1.y = p2.y

\* A mutant: boxes that only touch are taken as apart.
intersectsOpen(b1, b2) ==
    ~ (  b1.max_corner.x <= b2.min_corner.x
      \/ b1.min_corner.x >= b2.max_corner.x
      \/ b1.max_corner.y <= b2.min_corner.y
      \/ b1.min_corner.y >= b2.max_corner.y )

\* bg::intersects on two boxes: not disjoint, and two boxes are disjoint
\* when on some axis one lies strictly beyond the other.
intersects(b1, b2) ==
    ~ (  b1.max_corner.x < b2.min_corner.x
      \/ b1.min_corner.x > b2.max_corner.x
      \/ b1.max_corner.y < b2.min_corner.y
      \/ b1.min_corner.y > b2.max_corner.y )

\* A mutant: only the most recently placed label is compared.
hasOverlapLastOnly(candidate, placed_labels) ==
    /\ Len(placed_labels) > 0
    /\ intersects(candidate, placed_labels[Len(placed_labels)].label_box)

hasOverlap(candidate, placed_labels) ==
    \E k \in 1..Len(placed_labels) :
        intersects(candidate, placed_labels[k].label_box)

\* The candidate box of point pt for the j-th offset.
candidate_box(p, pt, j) ==
    LET off == offsets(p)[j]
        corner1 == point_t(pt.x + off[1], pt.y + off[2])
        corner2 == point_t(corner1.x + label_width(p), corner1.y + label_height(p))
    IN  box_t(corner1, corner2)

labeled_point(pt, label_str, b) == [point |-> pt, label |-> label_str, label_box |-> b]

----------------------------------------------------------------------------
\* placeLabels

\* A mutant: the scan of the offsets starts from the last one.
RECURSIVE TryOffsetsBackward(_, _, _, _)
TryOffsetsBackward(p, pair, res, j) ==
    LET jj == Len(offsets(p)) + 1 - j
    IN  IF j > Len(offsets(p)) THEN <<>>
        ELSE IF ~hasOverlap(candidate_box(p, pair.point, jj), res)
             THEN << labeled_point(pair.point, pair.label, candidate_box(p, pair.point, jj)) >>
             ELSE TryOffsetsBackward(p, pair, res, j + 1)

\* A mutant: the last offset is never tried.
RECURSIVE TryOffsetsSkipLast(_, _, _, _)
TryOffsetsSkipLast(p, pair, res, j) ==
    IF j >= Len(offsets(p)) THEN <<>>
    ELSE IF ~hasOverlap(candidate_box(p, pair.point, j), res)
         THEN << labeled_point(pair.point, pair.label, candidate_box(p, pair.point, j)) >>
         ELSE TryOffsetsSkipLast(p, pair, res, j + 1)

\* The inner loop from offset j on: the optional successfully_placed, as a
\* sequence of no or one labeled_point.
RECURSIVE TryOffsets(_, _, _, _)
TryOffsets(p, pair, res, j) ==
    IF j > Len(offsets(p)) THEN <<>>
    ELSE IF ~hasOverlap(candidate_box(p, pair.point, j), res)
         THEN << labeled_point(pair.point, pair.label, candidate_box(p, pair.point, j)) >>
         ELSE TryOffsets(p, pair, res, j + 1)

\* A mutant: the new entry is put in front.
PlaceOnePrepend(p, pair, res) == TryOffsets(p, pair, res, 1) \o res

\* A mutant: a point that finds no room evicts the last placed label.
PlaceOneEvict(p, pair, res) ==
    LET placed == TryOffsets(p, pair, res, 1)
    IN  IF placed = <<>> /\ Len(res) > 0
        THEN SubSeq(res, 1, Len(res) - 1)
        ELSE res \o placed

\* One iteration of the outer loop: the result after the pair is processed.
PlaceOne(p, pair, res) == res \o TryOffsets(p, pair, res, 1)

\* A mutant: the input is walked from its end.
RECURSIVE placeLabelsBackward(_, _)
placeLabelsBackward(p, input_points) ==
    IF input_points = <<>> THEN <<>>
    ELSE PlaceOne(p, Head(input_points), placeLabelsBackward(p, Tail(input_points)))

\* The whole function, as the fold of the outer loop over the input.
RECURSIVE placeLabels(_, _)
placeLabels(p, input_points) ==
    IF input_points = <<>> THEN <<>>
    ELSE LET n == Len(input_points)
         IN  PlaceOne(p, input_points[n], placeLabels(p, SubSeq(input_points, 1, n - 1)))

\* A mutant: the vector outlives the call (as a static would).
StaleResult == result

\* std::vector<labeled_point> result;
FreshResult == <<>>

----------------------------------------------------------------------------
\* main.cpp: the report of unlabeled points

\* has_label of one input pair against the returned placements.
has_label(point_pair, placed) ==
    \E k \in 1..Len(placed) : equals(placed[k].point, point_pair.point)

\* The pairs that get a NO LABEL line, in input order.
UnlabeledReport(all_points, placed) ==
    LET NoLabel(point_pair) == ~has_label(point_pair, placed)
    IN  SelectSeq(all_points, NoLabel)

----------------------------------------------------------------------------
\* The inputs

\* Spacing of the input points: 1.0 for "Source", 0.5 for "main".
GridStep(p) == IF p = "Source" THEN 1 ELSE 5

Coords(p) == {point_t(GridStep(p) * px, GridStep(p) * py) : px \in 0..MaxX, py \in 0..MaxY}

\* An input of n pairs: the points are free, the labels follow the position.
InputOf(n, f) == [k \in 1..n |-> [point |-> f[k], label |-> LabelOf(k)]]

Init ==
    /\ prog \in Programs
    /\ \E n \in 0..MaxN : \E f \in [1..n -> Coords(prog)] : points = InputOf(n, f)
    /\ pc = "main"
    /\ calls = 0
    /\ i = 0
    /\ result = <<>>
    /\ results = <<>>
    /\ unlabeled = <<>>
    /\ previous = <<>>

\* The runs of main.cpp alone, on inputs of up to MaxReportN pairs.
InitReport ==
    /\ prog = "main"
    /\ \E n \in 0..MaxReportN : \E f \in [1..n -> Coords(prog)] : points = InputOf(n, f)
    /\ pc = "main"
    /\ calls = 0
    /\ i = 0
    /\ result = <<>>
    /\ results = <<>>
    /\ unlabeled = <<>>
    /\ previous = <<>>

\* auto results = placeLabels(points): entry of the function.
Enter ==
    /\ result' = FreshResult
    /\ i' = 0
    /\ calls' = calls + 1
    /\ pc' = "loop"
    /\ UNCHANGED <<prog, points, results, unlabeled>>

Call ==
    /\ pc = "main"
    /\ Enter
    /\ UNCHANGED previous

\* One iteration of the loop over input_points.
ProcessPoint ==
    /\ pc = "loop"
    /\ i < Len(points)
    /\ result' = PlaceOne(prog, points[i + 1], result)
    /\ i' = i + 1
    /\ UNCHANGED <<prog, points, pc, calls, results, unlabeled, previous>>

\* return result;
Return ==
    /\ pc = "loop"
    /\ i = Len(points)
    /\ results' = result
    /\ pc' = "returned"
    /\ UNCHANGED <<prog, points, calls, i, result, unlabeled, previous>>

\* main.cpp: "Find and report unlabeled points".
ReportUnlabeled ==
    /\ pc = "returned"
    /\ prog = "main"
    /\ unlabeled' = UnlabeledReport(points, results)
    /\ pc' = "reported"
    /\ UNCHANGED <<prog, points, calls, i, result, results, previous>>

Next == Call \/ ProcessPoint \/ Return \/ ReportUnlabeled

Spec == Init /\ [][Next]_vars

SpecReport == InitReport /\ [][Next]_vars

\* A caller that runs placeLabels a second time on the same input.
CallAgain ==
    /\ pc = "returned"
    /\ calls = 1
    /\ Enter
    /\ previous' = results

NextTwice == Call \/ ProcessPoint \/ Return \/ CallAgain

SpecTwice == Init /\ [][NextTwice]_vars

----------------------------------------------------------------------------
\* Helpers of the properties

IsPrefix(s, t) == Len(s) <= Len(t) /\ SubSeq(t, 1, Len(s)) = s

PairOf(lp) == [point |-> lp.point, label |-> lp.label]

\* r is s with some entries left out (greedy matching from the front).
RECURSIVE IsSubsequence(_, _)
IsSubsequence(r, s) ==
    IF r = <<>> THEN TRUE
    ELSE IF s = <<>> THEN FALSE
    ELSE IF PairOf(Head(r)) = Head(s) THEN IsSubsequence(Tail(r), Tail(s))
    ELSE IsSubsequence(r, Tail(s))

OffsetIndexes == 1..Len(offsets(prog))

\* The closed boxes have a common point.  All corners are whole numbers, so
\* two closed boxes meet exactly when they have a common lattice point.
SharePoint(b1, b2) ==
    \E px \in b1.min_corner.x..b1.max_corner.x, py \in b1.min_corner.y..b1.max_corner.y :
        /\ px \in b2.min_corner.x..b2.max_corner.x
        /\ py \in b2.min_corner.y..b2.max_corner.y

\* The boxes have a common region of positive area: a common unit cell.
ShareArea(b1, b2) ==
    \E px \in b1.min_corner.x..(b1.max_corner.x - 1), py \in b1.min_corner.y..(b1.max_corner.y - 1) :
        /\ px >= b2.min_corner.x /\ px + 1 <= b2.max_corner.x
        /\ py >= b2.min_corner.y /\ py + 1 <= b2.max_corner.y

\* The loop is about to process a point.
Pending == pc = "loop" /\ i < Len(points)

PendingCandidate(j) == candidate_box(prog, points[i + 1].point, j)

\* Every candidate of pt meets a box of res.
AllBlocked(pt, res) ==
    \A j \in OffsetIndexes : \E k \in 1..Len(res) :
        SharePoint(candidate_box(prog, pt, j), res[k].label_box)

\* Input entry k is dropped by placeLabels: processing it adds nothing.
Dropped(k) ==
    Len(placeLabels(prog, SubSeq(points, 1, k)))
        = Len(placeLabels(prog, SubSeq(points, 1, k - 1)))

PlacedPoints(res) == {res[k].point : k \in 1..Len(res)}

----------------------------------------------------------------------------
\* C1: at every moment of a run, and in the returned value, no two distinct
\* entries of the result have label boxes that overlap under the predicate
\* hasOverlap uses (bg::intersects).
C1_NoOverlap ==
    /\ \A a, b \in 1..Len(result) :
          a # b => ~intersects(result[a].label_box, result[b].label_box)
    /\ \A a, b \in 1..Len(results) :
          a # b => ~intersects(results[a].label_box, results[b].label_box)

\* A returned result of two labels with one point dropped.
C1_Witness ==
    /\ pc = "returned"
    /\ Len(results) = 2
    /\ Len(points) = 3

\* C2: the result is a subsequence of the input processed so far: every
\* entry carries the point and label of a distinct input entry, in input
\* order, and nothing else.
C2_Subsequence ==
    /\ IsSubsequence(result, SubSeq(points, 1, i))
    /\ pc = "returned" => IsSubsequence(results, points)

\* A returned result that left out an entry in the middle of the input.
C2_Witness ==
    /\ pc = "returned"
    /\ Len(points) = 3
    /\ Len(results) = 2
    /\ results[2].label = points[3].label

\* C3: every placed point has the candidate of the earliest offset (TR, TL,
\* BR, BL) that overlaps no box accepted before it; the first entry of the
\* result always has the top-right candidate.
C3_FirstFit ==
    /\ \A a \in 1..Len(result) :
          LET earlier == SubSeq(result, 1, a - 1)
              free == {j \in OffsetIndexes :
                          ~hasOverlap(candidate_box(prog, result[a].point, j), earlier)}
          IN  /\ free # {}
              /\ \E j \in free :
                    /\ \A k \in free : j <= k
                    /\ result[a].label_box = candidate_box(prog, result[a].point, j)
    /\ Len(result) > 0 =>
          result[1].label_box = candidate_box(prog, result[1].point, 1)

\* A label placed bottom-left: its three earlier candidates were taken.
C3_Witness ==
    \E a \in 1..Len(result) :
        result[a].label_box = candidate_box(prog, result[a].point, 4)

\* C4 as stated: hasOverlap is true exactly when the candidate shares a region
\* of positive area with a placed box (touching does not count).
C4_PositiveAreaOnly ==
    Pending =>
        \A j \in OffsetIndexes :
            hasOverlap(PendingCandidate(j), result)
                <=> \E k \in 1..Len(result) :
                        ShareArea(PendingCandidate(j), result[k].label_box)

\* C4 amended: hasOverlap is true exactly when the candidate, as a closed
\* box, has a point in common with a placed box, touching along an edge or
\* at a corner included; so no two accepted boxes even touch.
C4_ClosedBoxes ==
    /\ Pending =>
          \A j \in OffsetIndexes :
              hasOverlap(PendingCandidate(j), result)
                  <=> \E k \in 1..Len(result) :
                          SharePoint(PendingCandidate(j), result[k].label_box)
    /\ \A a, b \in 1..Len(result) :
          a # b => ~SharePoint(result[a].label_box, result[b].label_box)

\* A candidate that only touches placed boxes, and is reported as overlapping.
C4_Witness ==
    /\ Pending
    /\ \E j \in OffsetIndexes :
          /\ hasOverlap(PendingCandidate(j), result)
          /\ \A k \in 1..Len(result) :
                ~ShareArea(PendingCandidate(j), result[k].label_box)

\* One step under C5: a point is left out exactly when every one of its candidates overlaps
\* a box accepted before; then the step appends nothing and changes nothing
\* in the result, the loop goes on to the next point (never back), and the
\* call returns after the last point.
C5_Step ==
    /\ i' >= i
    /\ i' = i + 1 =>
          LET pair == points[i + 1]
          IN  /\ pc' = "loop"
              /\ AllBlocked(pair.point, result) => result' = result
              /\ ~AllBlocked(pair.point, result) =>
                    /\ Len(result') = Len(result) + 1
                    /\ SubSeq(result', 1, Len(result)) = result
                    /\ PairOf(result'[Len(result')]) = pair
    /\ pc' = "returned" => i' = Len(points) /\ results' = result'

\* C5: every step of a run handles its point as C5_Step says: dropped exactly
\* when all candidates are blocked, silently, and never retried.
C5_SilentDrop == [][C5_Step]_vars

\* A call that returned after dropping its last input point.
C5_Witness ==
    /\ pc = "returned"
    /\ Len(points) >= 2
    /\ Dropped(Len(points))
    /\ Len(results) = Len(points) - 1

\* C6: when placeLabels(<<p, q>>) places p and drops q, placeLabels(<<q, p>>)
\* places q, and the two orders place different sets of points.
C6_OrderSensitive ==
    (pc = "returned" /\ Len(points) = 2 /\ Len(results) = 1
        /\ PairOf(results[1]) = points[1]) =>
        LET swapped == placeLabels(prog, <<points[2], points[1]>>)
        IN  /\ \E a \in 1..Len(swapped) : PairOf(swapped[a]) = points[2]
            /\ PlacedPoints(swapped) # PlacedPoints(results)

\* Two points of which the second was dropped.
C6_Witness ==
    /\ pc = "returned"
    /\ Len(points) = 2
    /\ Len(results) = 1
    /\ PairOf(results[1]) = points[1]

\* One step under C8: the result only grows at its end, and what placeLabels returns for a
\* prefix of the input is a prefix of what it returns for the whole input.
C8_Step ==
    /\ IsPrefix(result, result')
    /\ pc' = "returned" =>
          \A n \in 0..Len(points) :
              IsPrefix(placeLabels(prog, SubSeq(points, 1, n)), results')

\* C8: every step of a run only appends to the result (C8_Step), so results
\* for input prefixes are prefixes of the final result.
C8_NoBacktrack == [][C8_Step]_vars

\* A run that placed two labels and then dropped a point.
C8_Witness ==
    /\ pc = "loop"
    /\ i = 3
    /\ Len(result) = 2
    /\ Dropped(3)

\* C9: a second call on the same input returns what the first returned.
C9_SameResult ==
    (calls = 2 /\ pc = "returned") => results = previous

\* A second call that returned, with a label placed and a point dropped.
C9_Witness ==
    /\ calls = 2
    /\ pc = "returned"
    /\ Len(results) >= 1
    /\ Len(results) < Len(points)

\* C10: an input entry gets a NO LABEL line exactly when placeLabels dropped
\* it, so the number of lines is the input size minus the result size.
C10_ReportAgrees ==
    pc = "reported" =>
        /\ \A k \in 1..Len(points) :
              (\E m \in 1..Len(unlabeled) : unlabeled[m] = points[k]) <=> Dropped(k)
        /\ Len(unlabeled) = Len(points) - Len(results)

====
